---------------------------- MODULE Spec2Model ----------------------------
(***************************************************************************)
(* FSEOF_FS (src/fseof_fs.py) and FVSEOF (src/fvseof/fvseof.py): two       *)
(* analyzers that probe a shared cobra model under scoped edits            *)
(* ("with self.model as model"), aggregate fluxes at forced production     *)
(* levels, classify every reaction and return a ranked table.              *)
(*                                                                         *)
(* Floats are modelled as exact rationals [n, d] in lowest terms; d = 0    *)
(* stands for the non-finite floats (1/0 = inf, -1/0 = -inf, 0/0 = nan).   *)
(* The LP solver is an oracle: a solve either raises or returns some flux  *)
(* vector on an integer grid that respects the current bounds.             *)
(***************************************************************************)
EXTENDS Integers, Sequences, FiniteSets, TLC

(***************************************************************************)
(* Bounds of the model.                                                    *)
(***************************************************************************)
\* Largest flux magnitude on the solver oracle's integer grid.
MaxFlux == 1
\* Largest n_steps passed to FVSEOF.run.
MaxSteps == 2
\* Largest n (number of samples) passed to FSEOF_FS.run.
MaxSamples == 2
\* Largest magnitude of an aggregated flux handed to the classifiers alone.
MaxMagnitude == 5
\* Largest number of levels of a flux series handed to the classifiers alone.
MaxLevels == 4

(***************************************************************************)
(* Float arithmetic.                                                       *)
(***************************************************************************)
Abs(x) == IF x < 0 THEN -x ELSE x

Sign(x) == IF x > 0 THEN 1 ELSE IF x < 0 THEN -1 ELSE 0

RECURSIVE GCD(_, _)
GCD(a, b) == IF b = 0 THEN a ELSE GCD(b, a % b)

\* The float n/d, in lowest terms with a positive denominator.
Rat(n, d) ==
    IF d = 0 THEN [n |-> Sign(n), d |-> 0]
    ELSE LET g == GCD(Abs(n), Abs(d))
         IN  [n |-> (Sign(d) * n) \div g, d |-> Abs(d) \div g]

Num(k) == Rat(k, 1)

NaN == [n |-> 0, d |-> 0]

IsNaN(a) == a.d = 0 /\ a.n = 0

FAdd(a, b) == Rat(a.n * b.d + b.n * a.d, a.d * b.d)

FSub(a, b) == Rat(a.n * b.d - b.n * a.d, a.d * b.d)

FMul(a, b) == Rat(a.n * b.n, a.d * b.d)

\* numpy float64 division: x/0 is inf, -inf or nan (a warning, no exception).
FDiv(a, b) == Rat(a.n * b.d, a.d * b.n)

FAbs(a) == [n |-> Abs(a.n), d |-> a.d]

\* a < b on floats; every comparison with nan is false.
FLess(a, b) ==
    /\ ~IsNaN(a)
    /\ ~IsNaN(b)
    /\ IF a.d = 0 /\ b.d = 0 THEN a.n < b.n ELSE a.n * b.d < b.n * a.d

FGreater(a, b) == FLess(b, a)

FIsZero(a) == a.d # 0 /\ a.n = 0

(***************************************************************************)
(* The cobra model handed to the constructor.                              *)
(***************************************************************************)
\* model.reactions, in DictList order.
ModelReactions == <<"BIOMASS", "R1">>

\* Ids of model.metabolites.
ModelMetabolites == {"M_target", "M_other"}

ModelLowerBound == ("BIOMASS" :> Num(0)) @@ ("R1" :> Num(-1))

ModelUpperBound == ("BIOMASS" :> Num(1)) @@ ("R1" :> Num(1))

\* The objective the model comes with.
ModelObjective == "R1"

\* Upper bound given to the sink reaction.
SinkUpperBound == 1000

\* Ids a caller may pass as biomass_reaction_id / target_metabolite_id.
BiomassIdArgs == {"BIOMASS", "NO_SUCH_REACTION"}

TargetIdArgs == {"M_target", "NO_SUCH_METABOLITE"}

\* essential_reaction_threshold values a caller may pass: the default.
ThresholdArgs == {Rat(1, 2)}

Variants == {"FSEOF_FS", "FVSEOF"}

Range(s) == {s[i] : i \in DOMAIN s}

VARIABLES
    variant,        \* the class being used
    reactions,      \* ids of model.reactions, in order
    lower_bound,    \* reaction id -> lower bound
    upper_bound,    \* reaction id -> upper bound
    objective,      \* reaction id the model's objective maximises
    contexts,       \* stack of the open "with model" contexts
    self,           \* the analyzer's attributes
    pc,             \* position of the running call
    args,           \* arguments of the running call
    locals,         \* local variables of the running call
    outcome,        \* how the last call ended
    df,             \* table returned by the last run
    solved,         \* whether the solver has been called on the model
    essential_call  \* what the last check_essential_reaction saw and returned

vars == <<variant, reactions, lower_bound, upper_bound, objective, contexts,
          self, pc, args, locals, outcome, df, solved, essential_call>>

model_vars == <<reactions, lower_bound, upper_bound, objective, contexts>>

biomass == self.biomass_reaction_id

sink == self.product_sink_reaction_id

\* An attribute or a local that has not been assigned yet.
Unassigned == NaN

NoSelf ==
    [biomass_reaction_id |-> "", target_metabolite_id |-> "",
     product_sink_reaction_id |-> "",
     product_max_theoretical_yield |-> Unassigned,
     maximal_biomass_growth |-> Unassigned,
     check_essential_reaction_threshold |-> Unassigned]

NoLocals ==
    [caller |-> "", reaction_id |-> "", level |-> "", i |-> 0, k |-> 0,
     flux_list |-> <<>>, fluxes_low |-> <<>>, fluxes_high |-> <<>>,
     steps_lower_bounds |-> <<>>, per_step_fluxes |-> <<>>,
     target_types |-> <<>>, slopes |-> <<>>, essentialities |-> <<>>,
     df_data |-> <<>>]

\* What the last check_essential_reaction call saw and returned.
NoEssentialCall ==
    [reaction_id |-> "", raised |-> FALSE, growth |-> Unassigned,
     returned |-> FALSE]

(***************************************************************************)
(* Scoped model edits: "with self.model as model".                         *)
(***************************************************************************)
Snapshot ==
    [lower_bound |-> lower_bound, upper_bound |-> upper_bound,
     objective |-> objective]

\* What leaving the context does NOT put back: the forced bounds stay.
RevertedObjectiveOnly(snap) ==
    [lower_bound |-> lower_bound, upper_bound |-> upper_bound,
     objective |-> snap.objective]

\* The model's bounds and objective after the context's __exit__.
Reverted(snap) ==
    [lower_bound |-> snap.lower_bound, upper_bound |-> snap.upper_bound,
     objective |-> snap.objective]

\* __enter__, then the edits made at the top of the with block.
EnterContext(new_objective, new_lower, new_upper) ==
    /\ contexts' = Append(contexts, Snapshot)
    /\ objective' = new_objective
    /\ lower_bound' = new_lower
    /\ upper_bound' = new_upper
    /\ UNCHANGED reactions

\* __exit__, on return and on a propagating exception alike.
ExitContext ==
    LET r == Reverted(contexts[Len(contexts)])
    IN  /\ contexts' = SubSeq(contexts, 1, Len(contexts) - 1)
        /\ objective' = r.objective
        /\ lower_bound' = r.lower_bound
        /\ upper_bound' = r.upper_bound
        /\ UNCHANGED reactions

(***************************************************************************)
(* The solver oracle.                                                      *)
(***************************************************************************)
Grid == (-MaxFlux) .. MaxFlux

FLeq(a, b) == ~IsNaN(a) /\ ~IsNaN(b) /\ ~FLess(b, a)

\* A maximum the solver has reported is never exceeded by a later solve of
\* the same model under tighter bounds.
WithinCapacity(r, x) ==
    /\ (r = sink /\ ~IsNaN(self.product_max_theoretical_yield))
          => FLeq(Num(x), self.product_max_theoretical_yield)
    /\ (r = biomass /\ ~IsNaN(self.maximal_biomass_growth))
          => FLeq(Num(x), self.maximal_biomass_growth)

\* Flux vectors a solve of the model as it is now can return.
Solutions ==
    {v \in [Range(reactions) -> Grid] :
        \A r \in Range(reactions) :
            /\ FLeq(lower_bound[r], Num(v[r]))
            /\ FLeq(Num(v[r]), upper_bound[r])
            /\ WithinCapacity(r, v[r])}

Fluxes(v) == [r \in DOMAIN v |-> Num(v[r])]

(***************************************************************************)
(* Construction: __init__, add_product_sink_reaction and the two capacity  *)
(* probes.                                                                 *)
(***************************************************************************)
SinkId(v, target_metabolite_id) ==
    IF v = "FSEOF_FS" THEN target_metabolite_id \o "_sink"
    ELSE target_metabolite_id \o "_fvseof_sink"

\* Only the biomass id is asserted.
BiomassPreconditionOnly(biomass_reaction_id, target_metabolite_id) ==
    biomass_reaction_id \in Range(reactions)

\* The two assertions of __init__.
Preconditions(biomass_reaction_id, target_metabolite_id) ==
    /\ biomass_reaction_id \in Range(reactions)
    /\ target_metabolite_id \in ModelMetabolites

Init ==
    /\ variant = ""
    /\ reactions = ModelReactions
    /\ lower_bound = ModelLowerBound
    /\ upper_bound = ModelUpperBound
    /\ objective = ModelObjective
    /\ contexts = <<>>
    /\ self = NoSelf
    /\ pc = "new"
    /\ args = <<>>
    /\ locals = NoLocals
    /\ outcome = ""
    /\ df = <<>>
    /\ solved = FALSE
    /\ essential_call = NoEssentialCall

\* __init__ up to the return of add_product_sink_reaction.
Construct(v, biomass_reaction_id, target_metabolite_id, threshold) ==
    /\ pc = "new"
    /\ variant' = v
    /\ args' = [essential_reaction_threshold |-> threshold]
    /\ IF ~Preconditions(biomass_reaction_id, target_metabolite_id)
       THEN /\ self' = [self EXCEPT
                   !.biomass_reaction_id = biomass_reaction_id,
                   !.target_metabolite_id = target_metabolite_id]
            /\ outcome' = "AssertionError"
            /\ pc' = "failed"
            /\ UNCHANGED model_vars
       ELSE LET id == SinkId(v, target_metabolite_id)
            IN  /\ reactions' = Append(reactions, id)
                /\ lower_bound' = lower_bound @@ (id :> Num(0))
                /\ upper_bound' = upper_bound @@ (id :> Num(SinkUpperBound))
                /\ self' = [self EXCEPT
                       !.biomass_reaction_id = biomass_reaction_id,
                       !.target_metabolite_id = target_metabolite_id,
                       !.product_sink_reaction_id = id]
                /\ pc' = "yield_enter"
                /\ UNCHANGED <<objective, contexts, outcome>>
    /\ UNCHANGED <<locals, df, solved, essential_call>>

\* calc_product_maximal_theoretical_yield: the entry.
YieldEnter ==
    /\ pc = "yield_enter"
    /\ EnterContext(sink, lower_bound, upper_bound)
    /\ pc' = "yield_probe"
    /\ UNCHANGED <<variant, self, args, locals, outcome, df, solved,
                   essential_call>>

\* calc_product_maximal_theoretical_yield: the solve and the exit.
YieldProbe ==
    /\ pc = "yield_probe"
    /\ solved' = TRUE
    /\ ExitContext
    /\ \/ /\ outcome' = "SolverError"
          /\ pc' = "failed"
          /\ UNCHANGED self
       \/ \E v \in Solutions :
             /\ self' = [self EXCEPT
                   !.product_max_theoretical_yield = Fluxes(v)[sink]]
             /\ pc' = "growth_enter"
             /\ UNCHANGED outcome
    /\ UNCHANGED <<variant, args, locals, df, essential_call>>

\* The growth probe is run with the full yield already forced on the sink.
GrowthEnterForced ==
    /\ pc = "growth_enter"
    /\ EnterContext(biomass,
           [lower_bound EXCEPT ![sink] = self.product_max_theoretical_yield],
           upper_bound)
    /\ pc' = "growth_probe"
    /\ UNCHANGED <<variant, self, args, locals, outcome, df, solved,
                   essential_call>>

\* calc_maximal_biomass_growth: the entry.
GrowthEnter ==
    /\ pc = "growth_enter"
    /\ EnterContext(biomass, lower_bound, upper_bound)
    /\ pc' = "growth_probe"
    /\ UNCHANGED <<variant, self, args, locals, outcome, df, solved,
                   essential_call>>

\* calc_maximal_biomass_growth: the solve and the exit, then the rest of
\* __init__.
GrowthProbe ==
    /\ pc = "growth_probe"
    /\ solved' = TRUE
    /\ ExitContext
    /\ \/ /\ outcome' = "SolverError"
          /\ pc' = "failed"
          /\ UNCHANGED self
       \/ \E v \in Solutions :
             /\ self' = [self EXCEPT
                   !.maximal_biomass_growth = Fluxes(v)[biomass],
                   !.check_essential_reaction_threshold =
                       args.essential_reaction_threshold]
             /\ pc' = "ready"
             /\ outcome' = "constructed"
    /\ UNCHANGED <<variant, args, locals, df, essential_call>>

(***************************************************************************)
(* check_essential_reaction.                                               *)
(***************************************************************************)
\* Python-float division: a zero baseline raises ZeroDivisionError inside
\* the try, and the bare except answers True.
EssentialZeroDivision(growth) ==
    IF FIsZero(self.maximal_biomass_growth) THEN TRUE
    ELSE FLess(FDiv(growth, self.maximal_biomass_growth),
               self.check_essential_reaction_threshold)

\* The comparison of the knocked-out growth with the baseline.
Essential(growth) ==
    FLess(FDiv(growth, self.maximal_biomass_growth),
          self.check_essential_reaction_threshold)

\* The entry: the with block, the objective and the knockout.
KnockOut(reaction_id) ==
    /\ EnterContext(biomass,
                    [lower_bound EXCEPT ![reaction_id] = Num(0)],
                    [upper_bound EXCEPT ![reaction_id] = Num(0)])
    /\ pc' = "essential"

\* A caller checks one reaction between runs.
CheckEssentialReaction(reaction_id) ==
    /\ pc = "ready"
    /\ KnockOut(reaction_id)
    /\ locals' = [NoLocals EXCEPT !.caller = "user",
                                  !.reaction_id = reaction_id]
    /\ args' = [reaction_id |-> reaction_id]
    /\ outcome' = ""
    /\ df' = <<>>
    /\ essential_call' = NoEssentialCall
    /\ UNCHANGED <<variant, self, solved>>

\* "If same sign": whether run classifies the reaction at all.
FS_SameSign(low, high) ==
    FGreater(FMul(low, high), Num(0))

\* Equal magnitudes count as increased.
FS_TargetTypeUpOnTie(low, high) ==
    IF FLeq(FAbs(low), FAbs(high)) THEN "Up" ELSE "Down"

\* "If increased" / "If decreased".
FS_TargetType(low, high) ==
    IF FGreater(FAbs(high), FAbs(low)) THEN "Up" ELSE "Down"

\* The row FSEOF_FS.run appends for reaction r_id.
FS_Row(r_id, essential) ==
    LET row == [target_type |-> FS_TargetType(locals.fluxes_low[r_id],
                                              locals.fluxes_high[r_id]),
                reaction_id |-> r_id,
                mean_flux_low |-> locals.fluxes_low[r_id],
                mean_flux_high |-> locals.fluxes_high[r_id]]
    IN  IF args.check_essentiality
        THEN row @@ [essential |-> essential]
        ELSE row

\* The return of check_essential_reaction into its caller.
ReturnEssential(essential) ==
    CASE locals.caller = "user" ->
            /\ outcome' = "returned_bool"
            /\ pc' = "ready"
            /\ locals' = NoLocals
      [] locals.caller = "FSEOF_FS.run" ->
            /\ locals' = [locals EXCEPT
                   !.df_data = Append(@, FS_Row(locals.reaction_id, essential)),
                   !.k = @ + 1, !.reaction_id = ""]
            /\ pc' = "fs_classify"
            /\ UNCHANGED outcome
      [] locals.caller = "FVSEOF.run" ->
            /\ locals' = [locals EXCEPT
                   !.essentialities = @ @@ (locals.reaction_id :> essential),
                   !.k = @ + 1, !.reaction_id = ""]
            /\ pc' = "fv_essential"
            /\ UNCHANGED outcome

\* The solve inside the try, the return value and the exit.
EssentialProbe ==
    /\ pc = "essential"
    /\ solved' = TRUE
    /\ ExitContext
    /\ \/ /\ essential_call' = [reaction_id |-> locals.reaction_id,
                                raised |-> TRUE, growth |-> Unassigned,
                                returned |-> TRUE]
          /\ ReturnEssential(TRUE)
       \/ \E v \in Solutions :
             LET growth == Fluxes(v)[biomass]
             IN  /\ essential_call' = [reaction_id |-> locals.reaction_id,
                                       raised |-> FALSE, growth |-> growth,
                                       returned |-> Essential(growth)]
                 /\ ReturnEssential(Essential(growth))
    /\ UNCHANGED <<variant, self, args, df>>

(***************************************************************************)
(* DataFrame.sort_values(by = [target_type, score], ascending = [False,    *)
(* False]): strings compare by their characters' code points, nan scores   *)
(* go last, ties keep the rows' order.                                     *)
(***************************************************************************)
CodePoints ==
    ("Up" :> <<85, 112>>) @@ ("Down" :> <<68, 111, 119, 110>>)
        @@ ("Reverse" :> <<82, 101, 118, 101, 114, 115, 101>>)

\* s < t on strings.
StrLess(s, t) ==
    LET a == CodePoints[s]
        b == CodePoints[t]
    IN  \E i \in 1 .. Len(b) :
           /\ \A j \in 1 .. (i - 1) : j <= Len(a) /\ a[j] = b[j]
           /\ (i > Len(a) \/ a[i] < b[i])

\* Sorted ascending by score within a target_type.
ComesBeforeAscendingScore(a, b) ==
    \/ StrLess(b.target_type, a.target_type)
    \/ /\ a.target_type = b.target_type
       /\ FLess(a.score, b.score)

\* Whether key a sorts strictly before key b.
ComesBefore(a, b) ==
    \/ StrLess(b.target_type, a.target_type)
    \/ /\ a.target_type = b.target_type
       /\ \/ FGreater(a.score, b.score)
          \/ ~IsNaN(a.score) /\ IsNaN(b.score)

Min(S) == CHOOSE x \in S : \A y \in S : x <= y

RECURSIVE SortPrefix(_, _)
\* The stable order of the first m keys, as a sequence of row numbers.
SortPrefix(keys, m) ==
    IF m = 0 THEN <<>>
    ELSE LET perm == SortPrefix(keys, m - 1)
             later == {p \in 1 .. Len(perm) : ComesBefore(keys[m], keys[perm[p]])}
             at == IF later = {} THEN Len(perm) + 1 ELSE Min(later)
         IN  SubSeq(perm, 1, at - 1) \o <<m>> \o SubSeq(perm, at, Len(perm))

SortValues(rows, keys) ==
    LET perm == SortPrefix(keys, Len(keys))
    IN  [j \in 1 .. Len(rows) |-> rows[perm[j]]]

(***************************************************************************)
(* FSEOF_FS.run and get_average_fluxes_from_n_solutions.                   *)
(***************************************************************************)
\* The exception is swallowed and run goes on to its tail with no fluxes.
AggregationFailureSwallowed ==
    [pc |-> IF variant = "FSEOF_FS" THEN "fs_classify" ELSE "fv_essential",
     locals |-> [NoLocals EXCEPT !.k = Len(reactions) + 1]]

\* Where a solver exception raised during flux aggregation leaves run:
\* nothing catches it, the call is over.
AggregationFailure ==
    [pc |-> "ready", locals |-> NoLocals]

\* (fraction_low, fraction_high) pairs a caller may pass: the defaults.
FractionArgs == {<<Rat(1, 10), Rat(1, 5)>>}

RECURSIVE Sum(_)
Sum(fs) == IF fs = <<>> THEN Num(0) ELSE FAdd(fs[1], Sum(Tail(fs)))

\* sum(fs)/len(fs)
Mean(fs) == FDiv(Sum(fs), Num(Len(fs)))

\* The entry of one of run's two with blocks.
FS_EnterLevel(fraction) ==
    /\ EnterContext(biomass,
           [lower_bound EXCEPT
               ![sink] = FMul(self.product_max_theoretical_yield, fraction)],
           upper_bound)
    /\ pc' = "fs_sample"

\* run is called: the first with block is entered.
FS_Run(fractions, check_essentiality, n) ==
    /\ pc = "ready"
    /\ variant = "FSEOF_FS"
    /\ args' = [fraction_low |-> fractions[1], fraction_high |-> fractions[2],
                check_essentiality |-> check_essentiality, n |-> n]
    /\ locals' = [NoLocals EXCEPT !.level = "low"]
    /\ FS_EnterLevel(fractions[1])
    /\ outcome' = ""
    /\ df' = <<>>
    /\ essential_call' = NoEssentialCall
    /\ UNCHANGED <<variant, self, solved>>

\* One iteration of the sampling loop; after the last one, the averages
\* and the exit of the with block.
FS_Sample ==
    /\ pc = "fs_sample"
    /\ solved' = TRUE
    /\ \/ /\ ExitContext
          /\ outcome' = "SolverError"
          /\ pc' = AggregationFailure.pc
          /\ locals' = AggregationFailure.locals
       \/ \E v \in Solutions :
             LET flux_list ==
                     [r \in Range(reactions) |->
                         IF r \in DOMAIN locals.flux_list
                         THEN Append(locals.flux_list[r], Fluxes(v)[r])
                         ELSE <<Fluxes(v)[r]>>]
                 means == [r \in DOMAIN flux_list |-> Mean(flux_list[r])]
             IN  IF Len(flux_list[biomass]) < args.n
                 THEN /\ locals' = [locals EXCEPT !.flux_list = flux_list]
                      /\ UNCHANGED <<model_vars, pc, outcome>>
                 ELSE /\ ExitContext
                      /\ UNCHANGED outcome
                      /\ IF locals.level = "low"
                         THEN /\ locals' = [locals EXCEPT
                                    !.flux_list = <<>>, !.fluxes_low = means,
                                    !.level = "high"]
                              /\ pc' = "fs_enter_high"
                         ELSE /\ locals' = [locals EXCEPT
                                    !.flux_list = <<>>, !.fluxes_high = means,
                                    !.level = "", !.k = 1]
                              /\ pc' = "fs_classify"
    /\ UNCHANGED <<variant, self, args, df, essential_call>>

\* The second with block is entered.
FS_EnterHigh ==
    /\ pc = "fs_enter_high"
    /\ FS_EnterLevel(args.fraction_high)
    /\ UNCHANGED <<variant, self, args, locals, outcome, df, solved,
                   essential_call>>

\* One iteration of the loop over the model's reactions.
FS_Classify ==
    /\ pc = "fs_classify"
    /\ locals.k <= Len(reactions)
    /\ LET r_id == reactions[locals.k]
       IN  IF ~FS_SameSign(locals.fluxes_low[r_id], locals.fluxes_high[r_id])
           THEN /\ locals' = [locals EXCEPT !.k = @ + 1]
                /\ UNCHANGED <<model_vars, pc>>
           ELSE IF args.check_essentiality
           THEN /\ KnockOut(r_id)
                /\ locals' = [locals EXCEPT !.caller = "FSEOF_FS.run",
                                            !.reaction_id = r_id]
           ELSE /\ locals' = [locals EXCEPT
                       !.df_data = Append(@, FS_Row(r_id, FALSE)),
                       !.k = @ + 1]
                /\ UNCHANGED <<model_vars, pc>>
    /\ UNCHANGED <<variant, self, args, outcome, df, solved, essential_call>>

\* abs(x["mean_flux_low"] - x["mean_flux_high"])
AbsDiffMeanFluxes(row) ==
    FAbs(FSub(row.mean_flux_low, row.mean_flux_high))

\* The score column and sort_values on a frame that has rows.
FS_Ranked(df_data) ==
    LET rows == [j \in DOMAIN df_data |->
                    df_data[j] @@
                    [abs_diff_mean_fluxes |-> AbsDiffMeanFluxes(df_data[j])]]
        keys == [j \in DOMAIN rows |->
                    [target_type |-> rows[j].target_type,
                     score |-> rows[j].abs_diff_mean_fluxes]]
    IN  {[outcome |-> "returned_table", df |-> SortValues(rows, keys)]}

\* pd.DataFrame(df_data), the score column and sort_values: the ways the
\* tail of run can end. A frame built from no rows has no columns: the
\* column assignment (ValueError) or sort_values (KeyError) raises,
\* whichever the installed pandas reaches first.
FS_Rank(df_data) ==
    IF df_data = <<>>
    THEN {[outcome |-> "ValueError", df |-> <<>>],
          [outcome |-> "KeyError", df |-> <<>>]}
    ELSE FS_Ranked(df_data)

\* The end of run, after the loop.
FS_Return ==
    /\ pc = "fs_classify"
    /\ locals.k > Len(reactions)
    /\ \E end \in FS_Rank(locals.df_data) :
          /\ outcome' = end.outcome
          /\ df' = end.df
    /\ pc' = "ready"
    /\ locals' = NoLocals
    /\ UNCHANGED <<variant, self, args, solved, essential_call, model_vars>>

(***************************************************************************)
(* FVSEOF.run.                                                             *)
(***************************************************************************)
\* [n/n_steps*self.product_max_theoretical_yield for n in range(0, n_steps)]
StepsLowerBounds(n_steps) ==
    [j \in 1 .. n_steps |->
        FMul(Rat(j - 1, n_steps), self.product_max_theoretical_yield)]

\* run is called: the levels and the empty per-step lists.
FV_Run(n_steps, check_essentiality, fva) ==
    /\ pc = "ready"
    /\ variant = "FVSEOF"
    /\ args' = [n_steps |-> n_steps, check_essentiality |-> check_essentiality,
                fva |-> fva]
    /\ locals' = [NoLocals EXCEPT
           !.steps_lower_bounds = StepsLowerBounds(n_steps),
           !.per_step_fluxes = [r \in Range(reactions) |-> <<>>],
           !.i = 1]
    /\ pc' = "fv_loop"
    /\ outcome' = ""
    /\ df' = <<>>
    /\ essential_call' = NoEssentialCall
    /\ UNCHANGED <<variant, self, solved, model_vars>>

\* The with block of one level is entered.
FV_EnterLevel ==
    /\ pc = "fv_loop"
    /\ locals.i <= Len(locals.steps_lower_bounds)
    /\ EnterContext(biomass,
           [lower_bound EXCEPT ![sink] = locals.steps_lower_bounds[locals.i]],
           upper_bound)
    /\ pc' = "fv_level"
    /\ UNCHANGED <<variant, self, args, locals, outcome, df, solved,
                   essential_call>>

\* What flux_variability_analysis (fva) or loopless_solution returns for
\* each reaction: the (maximum + minimum) / 2 of two solutions, or one
\* solution's flux.
LevelFluxes ==
    IF args.fva
    THEN {[r \in Range(reactions) |->
              FDiv(FAdd(Num(hi[r]), Num(lo[r])), Num(2))] :
            <<lo, hi>> \in {p \in Solutions \X Solutions :
                              \A r \in Range(reactions) : p[1][r] <= p[2][r]}}
    ELSE {Fluxes(v) : v \in Solutions}

\* The solve of one level, the appends and the exit.
FV_Level ==
    /\ pc = "fv_level"
    /\ solved' = TRUE
    /\ ExitContext
    /\ \/ /\ outcome' = "SolverError"
          /\ pc' = AggregationFailure.pc
          /\ locals' = AggregationFailure.locals
       \/ \E fluxes \in LevelFluxes :
             /\ locals' = [locals EXCEPT
                    !.per_step_fluxes =
                        [r \in DOMAIN @ |-> Append(@[r], fluxes[r])],
                    !.i = @ + 1]
             /\ pc' = "fv_loop"
             /\ UNCHANGED outcome
    /\ UNCHANGED <<variant, self, args, df, essential_call>>

\* Only a zero first-level flux excludes a reaction.
FV_ClassifiedByFirst(first, last) ==
    ~FIsZero(first)

\* Whether run assigns the reaction a target type.
FV_Classified(first, last) ==
    ~FIsZero(first) /\ ~FIsZero(last)

\* The target type of a classified reaction.
FV_TargetType(first, last) ==
    IF FLeq(Num(0), FMul(first, last))
    THEN IF FGreater(FAbs(last), FAbs(first)) THEN "Up" ELSE "Down"
    ELSE "Reverse"

\* target_types: a dict over the classified reactions only.
FV_TargetTypes(per_step_fluxes) ==
    LET first(r) == per_step_fluxes[r][1]
        last(r) == per_step_fluxes[r][Len(per_step_fluxes[r])]
        keys == {r \in DOMAIN per_step_fluxes :
                   /\ FV_Classified(first(r), last(r))
                   /\ ~IsNaN(FMul(first(r), last(r)))}
    IN  [r \in keys |-> FV_TargetType(first(r), last(r))]

RECURSIVE SumProducts(_, _)
SumProducts(xs, ys) ==
    IF xs = <<>> THEN Num(0)
    ELSE FAdd(FMul(xs[1], ys[1]), SumProducts(Tail(xs), Tail(ys)))

\* N * sum(x^2) - sum(x)^2: zero exactly when all x are equal.
Spread(xs) ==
    FSub(FMul(Num(Len(xs)), SumProducts(xs, xs)), FMul(Sum(xs), Sum(xs)))

\* The least-squares slope of ys over xs.
Slope(xs, ys) ==
    FDiv(FSub(FMul(Num(Len(xs)), SumProducts(xs, ys)),
              FMul(Sum(xs), Sum(ys))),
         Spread(xs))

\* The ways the np.polyfit loop can end. When all x are equal (one level,
\* or a zero maximal yield) polyfit scales a zero column by its zero norm
\* and hands nan to lstsq, which raises LinAlgError or returns nan
\* coefficients depending on the LAPACK build.
Polyfit(xs, per_step_fluxes) ==
    IF FIsZero(Spread(xs))
    THEN {[raised |-> TRUE, slopes |-> <<>>],
          [raised |-> FALSE, slopes |-> [r \in DOMAIN per_step_fluxes |-> NaN]]}
    ELSE {[raised |-> FALSE,
           slopes |-> [r \in DOMAIN per_step_fluxes |->
                          Slope(xs, per_step_fluxes[r])]]}

\* The ids of seq that are in S, in seq's order.
Filter(seq, S) ==
    LET F[i \in 0 .. Len(seq)] ==
            IF i = 0 THEN <<>>
            ELSE IF seq[i] \in S THEN Append(F[i - 1], seq[i]) ELSE F[i - 1]
    IN  F[Len(seq)]

\* df_data: one row per classified reaction, in the model's order. Of the
\* step_<i> columns the first and the last are kept; the essentiality
\* column is added on return.
FV_Rows(target_types, slopes, per_step_fluxes) ==
    LET ids == Filter(reactions, DOMAIN target_types)
    IN  [j \in DOMAIN ids |->
            [reaction_id |-> ids[j],
             target_type |-> target_types[ids[j]],
             slope |-> slopes[ids[j]],
             step_first |-> per_step_fluxes[ids[j]][1],
             step_last |-> per_step_fluxes[ids[j]]
                               [Len(per_step_fluxes[ids[j]])]]]

\* After the last level: the target types.
FV_Classify ==
    /\ pc = "fv_loop"
    /\ locals.i > Len(locals.steps_lower_bounds)
    /\ locals' = [locals EXCEPT
           !.target_types = FV_TargetTypes(locals.per_step_fluxes)]
    /\ pc' = "fv_fit"
    /\ UNCHANGED <<variant, self, args, outcome, df, solved, essential_call,
                   model_vars>>

\* The slopes. What the rows will hold is kept, the per-step lists are not
\* read again.
FV_Fit ==
    /\ pc = "fv_fit"
    /\ \E fit \in Polyfit(locals.steps_lower_bounds, locals.per_step_fluxes) :
          IF fit.raised
          THEN /\ outcome' = "LinAlgError"
               /\ pc' = "ready"
               /\ locals' = NoLocals
          ELSE /\ locals' = [locals EXCEPT
                      !.df_data = FV_Rows(locals.target_types, fit.slopes,
                                          locals.per_step_fluxes),
                      !.per_step_fluxes = <<>>,
                      !.steps_lower_bounds = <<>>,
                      !.i = 0,
                      !.k = IF args.check_essentiality THEN 1
                            ELSE Len(reactions) + 1]
               /\ pc' = "fv_essential"
               /\ UNCHANGED outcome
    /\ UNCHANGED <<variant, self, args, df, solved, essential_call, model_vars>>

\* One iteration of the essentiality loop.
FV_Essential ==
    /\ pc = "fv_essential"
    /\ locals.k <= Len(reactions)
    /\ LET r_id == reactions[locals.k]
       IN  IF r_id \in DOMAIN locals.target_types
           THEN /\ KnockOut(r_id)
                /\ locals' = [locals EXCEPT !.caller = "FVSEOF.run",
                                            !.reaction_id = r_id]
           ELSE /\ locals' = [locals EXCEPT !.k = @ + 1]
                /\ UNCHANGED <<model_vars, pc>>
    /\ UNCHANGED <<variant, self, args, outcome, df, solved, essential_call>>

\* The rows with their essentiality column.
FV_WithEssentiality(rows, essentialities) ==
    [j \in DOMAIN rows |->
        IF args.check_essentiality
        THEN rows[j] @@ [essentiality |-> essentialities[rows[j].reaction_id]]
        ELSE rows[j]]

\* from_dict and sort_values with key = abs on the slope: the ways the tail
\* of run can end. A frame built from no rows has no target_type column.
FV_Rank(rows) ==
    IF rows = <<>>
    THEN {[outcome |-> "KeyError", df |-> <<>>]}
    ELSE {[outcome |-> "returned_table",
           df |-> SortValues(rows,
                     [j \in DOMAIN rows |->
                         [target_type |-> rows[j].target_type,
                          score |-> FAbs(rows[j].slope)]])]}

\* The end of run, after the essentiality loop.
FV_Return ==
    /\ pc = "fv_essential"
    /\ locals.k > Len(reactions)
    /\ \E end \in FV_Rank(FV_WithEssentiality(locals.df_data,
                                              locals.essentialities)) :
          /\ outcome' = end.outcome
          /\ df' = end.df
    /\ pc' = "ready"
    /\ locals' = NoLocals
    /\ UNCHANGED <<variant, self, args, solved, essential_call, model_vars>>

(***************************************************************************)
(* The program: one analyzer is built on the model and then used any       *)
(* number of times.                                                        *)
(***************************************************************************)
Next ==
    \/ \E v \in Variants, b \in BiomassIdArgs, t \in TargetIdArgs,
          th \in ThresholdArgs : Construct(v, b, t, th)
    \/ YieldEnter
    \/ YieldProbe
    \/ GrowthEnter
    \/ GrowthProbe
    \/ \E r \in Range(reactions) : CheckEssentialReaction(r)
    \/ EssentialProbe
    \/ \E f \in FractionArgs, c \in BOOLEAN, n \in 1 .. MaxSamples :
          FS_Run(f, c, n)
    \/ FS_Sample
    \/ FS_EnterHigh
    \/ FS_Classify
    \/ FS_Return
    \/ \E n \in 1 .. MaxSteps, c \in BOOLEAN, f \in BOOLEAN : FV_Run(n, c, f)
    \/ FV_EnterLevel
    \/ FV_Level
    \/ FV_Classify
    \/ FV_Fit
    \/ FV_Essential
    \/ FV_Return

Spec == Init /\ [][Next]_vars

(***************************************************************************)
(* The classifiers alone: run is taken up after flux aggregation, with     *)
(* the aggregated fluxes of R1 drawn from a wider range than the solver    *)
(* grid above, and check_essentiality off.                                 *)
(***************************************************************************)
Magnitudes == (-MaxMagnitude) .. MaxMagnitude

\* Flux series of n levels: any first and last value, small values between.
Series(n) ==
    {[j \in 1 .. n |-> IF j = 1 THEN Num(first)
                       ELSE IF j = n THEN Num(last) ELSE Num(mids[j])] :
        first \in Magnitudes, last \in Magnitudes,
        mids \in [2 .. (n - 1) -> {-1, 0, 1}]}

InitClassify ==
    /\ variant \in Variants
    /\ reactions = Append(ModelReactions, SinkId(variant, "M_target"))
    /\ lower_bound = ModelLowerBound @@ (SinkId(variant, "M_target") :> Num(0))
    /\ upper_bound = ModelUpperBound
                        @@ (SinkId(variant, "M_target") :> Num(SinkUpperBound))
    /\ objective = ModelObjective
    /\ contexts = <<>>
    /\ self = [biomass_reaction_id |-> "BIOMASS",
               target_metabolite_id |-> "M_target",
               product_sink_reaction_id |-> SinkId(variant, "M_target"),
               product_max_theoretical_yield |-> Num(1),
               maximal_biomass_growth |-> Num(1),
               check_essential_reaction_threshold |-> Rat(1, 2)]
    /\ outcome = ""
    /\ df = <<>>
    /\ solved = TRUE
    /\ essential_call = NoEssentialCall
    /\ IF variant = "FSEOF_FS"
       THEN /\ pc = "fs_classify"
            /\ args = [fraction_low |-> Rat(1, 10), fraction_high |-> Rat(1, 5),
                       check_essentiality |-> FALSE, n |-> 1]
            /\ \E low \in Magnitudes, high \in Magnitudes :
                  locals = [NoLocals EXCEPT
                      !.k = 1,
                      !.fluxes_low = [r \in Range(reactions) |->
                                         IF r = "R1" THEN Num(low) ELSE Num(1)],
                      !.fluxes_high = [r \in Range(reactions) |->
                                         IF r = "R1" THEN Num(high) ELSE Num(1)]]
       ELSE \E n \in 2 .. MaxLevels :
               /\ pc = "fv_loop"
               /\ args = [n_steps |-> n, check_essentiality |-> FALSE,
                          fva |-> FALSE]
               /\ \E series \in Series(n) :
                     locals = [NoLocals EXCEPT
                         !.steps_lower_bounds = StepsLowerBounds(n),
                         !.i = n + 1,
                         !.per_step_fluxes =
                             [r \in Range(reactions) |->
                                 IF r = "R1" THEN series
                                 ELSE [j \in 1 .. n |-> Num(1)]]]

NextClassify ==
    \/ FS_Classify
    \/ FS_Return
    \/ FV_Classify
    \/ FV_Fit
    \/ FV_Return

SpecClassify == InitClassify /\ [][NextClassify]_vars

(***************************************************************************)
(* Properties.                                                             *)
(***************************************************************************)
\* The bounds the model has outside every probe: those it came with, and
\* [0, 1000] for the sink once it has been added.
BaselineLower ==
    [r \in Range(reactions) |->
        IF r \in DOMAIN ModelLowerBound THEN ModelLowerBound[r] ELSE Num(0)]

BaselineUpper ==
    [r \in Range(reactions) |->
        IF r \in DOMAIN ModelUpperBound THEN ModelUpperBound[r]
        ELSE Num(SinkUpperBound)]

\* The forced production level of the with block run is in.
ForcedLevel ==
    IF pc = "fv_level" THEN locals.steps_lower_bounds[locals.i]
    ELSE FMul(self.product_max_theoretical_yield,
              IF locals.level = "low" THEN args.fraction_low
              ELSE args.fraction_high)

\* C1: whenever no probe is open, by normal return, by a caught
\* infeasibility or by a propagating solver exception, every bound and the
\* objective have the values they had before the probe; inside a probe only
\* that probe's own edit is in effect: a knockout sees no forced sink bound,
\* a level sees its own forced sink bound and nothing else.
ProbesRevert ==
    /\ contexts = <<>> =>
          /\ lower_bound = BaselineLower
          /\ upper_bound = BaselineUpper
          /\ objective = ModelObjective
    /\ pc \in {"yield_probe", "growth_probe"} =>
          /\ Len(contexts) = 1
          /\ lower_bound = BaselineLower
          /\ upper_bound = BaselineUpper
    /\ pc = "essential" =>
          /\ Len(contexts) = 1
          /\ \A r \in Range(reactions) :
                IF r = locals.reaction_id
                THEN lower_bound[r] = Num(0) /\ upper_bound[r] = Num(0)
                ELSE /\ lower_bound[r] = BaselineLower[r]
                     /\ upper_bound[r] = BaselineUpper[r]
    /\ pc \in {"fs_sample", "fv_level"} =>
          /\ Len(contexts) = 1
          /\ upper_bound = BaselineUpper
          /\ \A r \in Range(reactions) :
                lower_bound[r] = IF r = sink THEN ForcedLevel
                                 ELSE BaselineLower[r]

\* A run whose first level forced the sink has been aborted by the solver.
ProbesRevertWitness ==
    /\ pc = "ready"
    /\ outcome = "SolverError"
    /\ variant = "FSEOF_FS"
    /\ self.product_max_theoretical_yield = Num(1)
    /\ lower_bound[sink] = Num(0)

\* C2: check_essential_reaction returns true when the knockout solve
\* raises, true when the knocked-out growth is below threshold times
\* maximal_biomass_growth, false otherwise, and a direct call always ends by
\* returning that boolean, whatever the baseline (zero included).
EssentialityResult ==
    /\ essential_call.reaction_id # "" =>
          essential_call.returned =
             (\/ essential_call.raised
              \/ LET g == essential_call.growth
                     t == self.check_essential_reaction_threshold
                     m == self.maximal_biomass_growth
                 IN  g.n * t.d * m.d < t.n * m.n * g.d)
    /\ (pc = "ready" /\ "reaction_id" \in DOMAIN args) =>
          /\ outcome = "returned_bool"
          /\ essential_call.reaction_id = args.reaction_id

\* A knockout was solved against a zero baseline and found not essential.
EssentialityResultWitness ==
    /\ pc = "ready"
    /\ outcome = "returned_bool"
    /\ self.maximal_biomass_growth = Num(0)
    /\ ~essential_call.raised
    /\ ~essential_call.returned

\* C3: construction with a biomass id or a metabolite id the model lacks
\* fails its assertion with the model as it was: no sink added, no bound or
\* objective touched, no solver call made.
InvalidIdsRejected ==
    (/\ pc # "new"
     /\ \/ self.biomass_reaction_id \notin Range(ModelReactions)
        \/ self.target_metabolite_id \notin ModelMetabolites)
    => /\ pc = "failed"
       /\ outcome = "AssertionError"
       /\ ~solved
       /\ reactions = ModelReactions
       /\ lower_bound = ModelLowerBound
       /\ upper_bound = ModelUpperBound
       /\ objective = ModelObjective
       /\ contexts = <<>>

InvalidIdsRejectedWitness ==
    /\ pc = "failed"
    /\ outcome = "AssertionError"
    /\ self.biomass_reaction_id = "BIOMASS"
    /\ self.target_metabolite_id = "NO_SUCH_METABOLITE"

\* The score a row is ranked by.
RowScore(row) ==
    IF variant = "FSEOF_FS"
    THEN Rat(Abs(row.mean_flux_low.n * row.mean_flux_high.d
                   - row.mean_flux_high.n * row.mean_flux_low.d),
             row.mean_flux_low.d * row.mean_flux_high.d)
    ELSE [n |-> Abs(row.slope.n), d |-> row.slope.d]

\* Rows i < j of the returned table are in the order given by position:
\* types by their position, equal types by score, larger first.
TableOrderedBy(position) ==
    outcome = "returned_table" =>
       \A i \in DOMAIN df : \A j \in DOMAIN df :
          i < j =>
             /\ position[df[i].target_type] <= position[df[j].target_type]
             /\ df[i].target_type = df[j].target_type
                   => ~FLess(RowScore(df[i]), RowScore(df[j]))

\* C4 as claimed, for tables whose scores are all numbers: Up rows, then
\* Down rows, then Reverse rows, each group in non-increasing order of score.
UpDownReverseOrder ==
    (\A j \in DOMAIN df : ~IsNaN(RowScore(df[j])))
    => TableOrderedBy(("Up" :> 1) @@ ("Down" :> 2) @@ ("Reverse" :> 3))

\* C4 amended: Up rows, then Reverse rows, then Down rows (descending string
\* order), and within a type no row is followed by a row of greater score.
UpReverseDownOrder ==
    TableOrderedBy(("Up" :> 1) @@ ("Reverse" :> 2) @@ ("Down" :> 3))

\* FVSEOF returned an Up row, a Reverse row and a Down row, in that order.
UpReverseDownWitness ==
    /\ outcome = "returned_table"
    /\ Len(df) = 3
    /\ df[1].target_type = "Up"
    /\ df[2].target_type = "Reverse"
    /\ df[3].target_type = "Down"

\* |a| > |b| on floats that are numbers.
LargerMagnitude(a, b) == Abs(a.n) * b.d > Abs(b.n) * a.d

\* C5: FSEOF_FS.run gives a reaction a row exactly when its low and high
\* mean fluxes have a positive product; the row's target_type is Up when
\* |high| > |low| and Down otherwise (equal magnitudes included), and the
\* score of a returned row is |low - high|.
FS_Classification ==
    /\ (variant = "FSEOF_FS" /\ pc = "fs_classify"
           /\ locals.k > Len(reactions)) =>
          \A r \in Range(reactions) :
             LET low == locals.fluxes_low[r]
                 high == locals.fluxes_high[r]
                 rows == {j \in DOMAIN locals.df_data :
                             locals.df_data[j].reaction_id = r}
             IN  /\ Cardinality(rows) = IF low.n * high.n > 0 THEN 1 ELSE 0
                 /\ \A j \in rows :
                       /\ locals.df_data[j].mean_flux_low = low
                       /\ locals.df_data[j].mean_flux_high = high
    /\ (variant = "FSEOF_FS" /\ outcome = "returned_table") =>
          \A j \in DOMAIN df :
             /\ df[j].mean_flux_low.n * df[j].mean_flux_high.n > 0
             /\ df[j].target_type =
                   IF LargerMagnitude(df[j].mean_flux_high, df[j].mean_flux_low)
                   THEN "Up" ELSE "Down"
             /\ df[j].abs_diff_mean_fluxes = RowScore(df[j])

\* The table holds R1 with fluxes (-2, -5): Up, score 3.
FS_ClassificationWitness ==
    /\ variant = "FSEOF_FS"
    /\ outcome = "returned_table"
    /\ \E j \in DOMAIN df :
          /\ df[j].reaction_id = "R1"
          /\ df[j].mean_flux_low = Num(-2)
          /\ df[j].mean_flux_high = Num(-5)
          /\ df[j].target_type = "Up"
          /\ df[j].abs_diff_mean_fluxes = Num(3)

\* The target type C6 gives a series by its first and last flux alone.
TypeByEnds(first, last) ==
    IF first.n * last.n < 0 THEN "Reverse"
    ELSE IF LargerMagnitude(last, first) THEN "Up" ELSE "Down"

\* C6: FVSEOF.run excludes a reaction exactly when its first-level or its
\* last-level flux is 0; otherwise the target_type is Reverse when first
\* times last is negative, else Up when |last| > |first|, else Down, whatever
\* the levels in between.
FV_Classification ==
    /\ (variant = "FVSEOF" /\ pc = "fv_fit") =>
          \A r \in Range(reactions) :
             LET series == locals.per_step_fluxes[r]
                 first == series[1]
                 last == series[Len(series)]
             IN  /\ r \in DOMAIN locals.target_types
                       <=> (first.n # 0 /\ last.n # 0)
                 /\ r \in DOMAIN locals.target_types =>
                       locals.target_types[r] = TypeByEnds(first, last)
    /\ (variant = "FVSEOF" /\ outcome = "returned_table") =>
          \A j \in DOMAIN df :
             /\ df[j].step_first.n # 0
             /\ df[j].step_last.n # 0
             /\ df[j].target_type = TypeByEnds(df[j].step_first, df[j].step_last)

\* R1 has the series [-2, 0, 1, 3] and was classified Reverse.
FV_ClassificationWitness ==
    /\ variant = "FVSEOF"
    /\ pc = "fv_fit"
    /\ locals.per_step_fluxes["R1"] = <<Num(-2), Num(0), Num(1), Num(3)>>
    /\ "R1" \in DOMAIN locals.target_types
    /\ locals.target_types["R1"] = "Reverse"

\* C7: FVSEOF.run never returns a table when called with n_steps = 1, where
\* a slope would come from a single (level, flux) point.
SingleStepNeverReturnsTable ==
    (variant = "FVSEOF" /\ outcome = "returned_table") => args.n_steps >= 2

\* C8: a solver failure during flux aggregation ends run there and then:
\* the exception reaches the caller with every context left, no table, no
\* essentiality check made and nothing of the sweep kept.
AggregationFailureAborts ==
    (outcome = "SolverError" /\ pc # "failed") =>
       /\ pc = "ready"
       /\ contexts = <<>>
       /\ df = <<>>
       /\ locals = NoLocals
       /\ essential_call = NoEssentialCall

\* FVSEOF.run with essentiality checks on was aborted by the solver.
AggregationFailureWitness ==
    /\ outcome = "SolverError"
    /\ pc = "ready"
    /\ variant = "FVSEOF"
    /\ "n_steps" \in DOMAIN args
    /\ args.check_essentiality

\* Both capacity scalars are solved for with the sink at [0, 1000] and no
\* forced level; a level is forced only once both are known.
ScalarsComputedUnforced ==
    /\ pc \in {"yield_probe", "growth_probe"} =>
          /\ lower_bound[sink] = Num(0)
          /\ upper_bound[sink] = Num(SinkUpperBound)
    /\ pc \in {"new", "yield_enter", "yield_probe"} =>
          IsNaN(self.product_max_theoretical_yield)
    /\ pc \in {"new", "yield_enter", "yield_probe", "growth_enter",
               "growth_probe"} =>
          IsNaN(self.maximal_biomass_growth)
    /\ pc \notin {"new", "failed", "yield_enter", "yield_probe", "growth_enter",
                  "growth_probe"} =>
          /\ ~IsNaN(self.product_max_theoretical_yield)
          /\ ~IsNaN(self.maximal_biomass_growth)

\* C9: the capacity scalars are computed during construction, after the
\* sink is added with bounds [0, 1000] and before any forced lower bound,
\* and no later step changes them.
CapacityScalarsFixed ==
    /\ []ScalarsComputedUnforced
    /\ [][/\ ~IsNaN(self.product_max_theoretical_yield) =>
               self'.product_max_theoretical_yield
                  = self.product_max_theoretical_yield
          /\ ~IsNaN(self.maximal_biomass_growth) =>
               self'.maximal_biomass_growth = self.maximal_biomass_growth]_vars

\* A run with essentiality checks has returned and the scalars are set.
CapacityScalarsWitness ==
    /\ outcome = "returned_table"
    /\ essential_call.reaction_id # ""
    /\ self.product_max_theoretical_yield = Num(1)
    /\ self.maximal_biomass_growth = Num(1)

\* C10: FSEOF_FS.run returns a table whenever both flux aggregations
\* succeeded, also when no reaction passed the same-sign test.
FS_AlwaysReturnsTable ==
    (/\ variant = "FSEOF_FS"
     /\ pc = "ready"
     /\ "fraction_low" \in DOMAIN args
     /\ outcome # "SolverError")
    => outcome = "returned_table"
=============================================================================
